---- MODULE Spec2Model ----
(***************************************************************************)
(* Model of the scraper service: crawl_site / embed_and_store /            *)
(* embed_with_retry / filter_chunks / deduplicate (scraper.py),            *)
(* store_chunks / is_recently_scraped (supabase_db.py) and the /scrape     *)
(* endpoint that starts one crawl_site coroutine per seed URL (main.py).   *)
(*                                                                         *)
(* Crawl jobs are coroutines of one asyncio event loop: a job gives up the *)
(* loop only at an await that suspends (AsyncWebCrawler start-up and       *)
(* crawler.arun).  Everything between two such awaits, the blocking        *)
(* embedding calls, time.sleep and the psycopg2 calls included, runs       *)
(* without any other job running.  `running` is the job that holds the     *)
(* loop.                                                                   *)
(***************************************************************************)
EXTENDS Integers, Sequences, FiniteSets, TLC

VARIABLES
    start_url,        \* job -> the seed URL of the job
    max_pages,        \* job -> the page budget of the job
    visited,          \* job -> set of URLs popped and not skipped as visited
    queue,            \* job -> the frontier, a sequence of URLs
    pages_processed,  \* job -> the counter of crawl_site
    pc,               \* job -> position of the coroutine
    url,              \* job -> the URL popped last
    result,           \* job -> the CrawlResult of the last arun
    chunks,           \* job -> the filtered chunks of the page in the pipeline
    vectors,          \* job -> the vectors embed_documents returned
    emb,              \* job -> embed_with_retry: attempt, calls, sleeps, outcome
    store,            \* the rows of table playstation_content
    clock,            \* datetime.now, in cooldown units
    running,          \* the job that holds the event loop, or NoJob
    popped,           \* job -> sequence of URLs taken off the queue (history)
    fetched,          \* job -> sequence of URLs handed to crawler.arun (history)
    stored,           \* job -> sequence of committed store_chunks calls (history)
    noop,             \* job -> number of embed_and_store runs that returned at "no chunks"
    web,              \* the results the crawled sites give to crawler.arun
    retval,           \* job -> the value crawl_site returned, once it has
    depth,            \* job -> link depth at which each URL was first queued (history)
    txn,              \* job -> the table as the job's open, failed transaction sees it
    pure              \* input and results of a filter_chunks / deduplicate call on its own

vars == <<start_url, max_pages, visited, queue, pages_processed, pc, url, result,
          chunks, vectors, emb, store, clock, running, popped, fetched, stored, noop,
          web, retval, depth, txn, pure>>

----------------------------------------------------------------------------
(* Bounds and configuration                                                *)

Jobs == {1, 2}
NoJob == 0

\* largest page budget a request asks for (ScrapeRequest.max_pages)
MaxBudget == 2
\* last instant of the clock
MaxClock == 1
\* most chunks in a call of deduplicate / of filter_chunks looked at on its own
DedupMaxLen == 3
FilterMaxLen == 2
\* SCRAPE_COOLDOWN_HOURS, an environment setting; the clock counts in its unit
SCRAPE_COOLDOWN_HOURS == 1
\* EMBED_RETRIES, default of the environment setting
EMBED_RETRIES == 5

MIN_CHUNK_LEN == 100
MAX_CHUNK_LEN == 1000
MIN_WORD_COUNT == 15
\* MAX_LINK_RATIO = 0.3 = MaxLinkRatioNum / MaxLinkRatioDen
MaxLinkRatioNum == 3
MaxLinkRatioDen == 10
\* DEDUP_THRESHOLD = 0.95 = DedupNum / DedupDen
DedupNum == 19
DedupDen == 20

----------------------------------------------------------------------------
(* URLs.  A URL string is the tuple <<netloc, path, fragment>> of its      *)
(* parts; urlparse splits it and geturl joins it again.                    *)

urlparse(u) == [netloc |-> u[1], path |-> u[2], fragment |-> u[3]]
geturl(p) == <<p.netloc, p.path, p.fragment>>

EmptyHref == <<"", "", "">>
Home      == <<"example.com", "/", "">>
HomeTop   == <<"example.com", "/", "top">>
PageA     == <<"example.com", "/a", "">>
PageASec  == <<"example.com", "/a", "section">>
PageC     == <<"example.com", "/c", "">>
OtherB    == <<"other.com", "/b", "">>

StartURLs == {Home, HomeTop}

\* result.links: None, or the list under "internal"
NoLinks == <<"None">>
LinkLists == { <<>>,
               <<PageA, OtherB>>,
               <<PageASec, PageA>>,
               <<EmptyHref, Home, PageASec>> }

----------------------------------------------------------------------------
(* Page content.  A markdown text is given by the raw chunks the text      *)
(* splitter cuts it into; a chunk by the measures filter_chunks takes of   *)
(* it and the vector the embedding model gives it.                         *)

Chunk(t, pad, len, words, links, kw, vec) ==
    [text |-> t, pad |-> pad, len |-> len, words |-> words,
     links |-> links, kw |-> kw, vec |-> vec]

\* Chunk(text, pad, len, words, links, kw, vec): len counts the pad characters
Good1   == Chunk("ps5 specs", 2, 122, 20, 0, TRUE, <<1, 0>>)
Good2   == Chunk("psn store", 0, 400, 60, 2, TRUE, <<0, 1>>)
Near1   == Chunk("ps5 specs again", 0, 130, 22, 0, TRUE, <<20, 1>>)
Short   == Chunk("ps5", 0, 50, 20, 0, TRUE, <<1, 1>>)
Linky   == Chunk("ps5 links", 0, 200, 20, 7, TRUE, <<1, 2>>)
OffTopic == Chunk("cookies", 0, 200, 30, 0, FALSE, <<2, 1>>)

\* result.markdown: fit_markdown and raw_markdown
Markdowns == { [fit |-> <<>>, raw |-> <<>>],
               [fit |-> <<Short, Linky, OffTopic>>, raw |-> <<Good1>>],
               [fit |-> <<Good1>>, raw |-> <<>>],
               [fit |-> <<>>, raw |-> <<Good2>>],
               [fit |-> <<Good1, Near1, Good2>>, raw |-> <<>>] }

NoResult == [success |-> FALSE, links |-> NoLinks, markdown |-> [fit |-> <<>>, raw |-> <<>>]]

\* what crawler.arun can return
Results ==
    { NoResult } \cup
    [success : {TRUE}, links : LinkLists \cup {NoLinks}, markdown : Markdowns]

----------------------------------------------------------------------------
(* filter_chunks                                                           *)

\* chunk.strip(): the surrounding whitespace (pad characters) is cut off
strip(c) == [c EXCEPT !.len = c.len - c.pad, !.pad = 0]

\* the link test at the ratio itself
KeepChunkLinkAtRatio(c) ==
    /\ ~(c.len < MIN_CHUNK_LEN \/ c.len > MAX_CHUNK_LEN)
    /\ ~(c.words < MIN_WORD_COUNT)
    /\ ~(c.links > 0 /\ c.links * MaxLinkRatioDen >= MaxLinkRatioNum * c.words)
    /\ c.kw

\* the four tests of the loop body, made on the stripped text
KeepChunk(c) ==
    /\ ~(c.len < MIN_CHUNK_LEN \/ c.len > MAX_CHUNK_LEN)
    /\ ~(c.words < MIN_WORD_COUNT)
    /\ ~(c.links > 0 /\ c.links * MaxLinkRatioDen > MaxLinkRatioNum * c.words)
    /\ c.kw

RECURSIVE filter_chunks(_)
filter_chunks(cs) ==
    IF cs = <<>> THEN <<>>
    ELSE LET text == strip(Head(cs))
             rest == filter_chunks(Tail(cs))
         IN  IF KeepChunk(text) THEN <<text>> \o rest ELSE rest

----------------------------------------------------------------------------
(* deduplicate.  The similarity of two vectors is the dot product of the   *)
(* vectors divided by their norms (a zero norm is replaced by 1); it is    *)
(* compared with DEDUP_THRESHOLD on the squares, in exact arithmetic.      *)

RECURSIVE Dot(_, _)
Dot(a, b) == IF a = <<>> THEN 0 ELSE Head(a) * Head(b) + Dot(Tail(a), Tail(b))

\* sim >= DEDUP_THRESHOLD
SimAtOrAboveThreshold(a, b) ==
    /\ Dot(a, b) > 0
    /\ DedupDen * DedupDen * Dot(a, b) * Dot(a, b)
         >= DedupNum * DedupNum * Dot(a, a) * Dot(b, b)

\* sim > DEDUP_THRESHOLD for sim = Dot(a, b) / (|a| * |b|)
SimAboveThreshold(a, b) ==
    /\ Dot(a, b) > 0
    /\ DedupDen * DedupDen * Dot(a, b) * Dot(a, b)
         > DedupNum * DedupNum * Dot(a, a) * Dot(b, b)

\* the keep list of the loop over range(len(normed)), from index i on
RECURSIVE DedupKeep(_, _, _)
DedupKeep(vs, i, keep) ==
    IF i > Len(vs) THEN keep
    ELSE LET is_dup == \E k \in 1..Len(keep) : SimAboveThreshold(vs[i], vs[keep[k]])
         IN  DedupKeep(vs, i + 1, IF is_dup THEN keep ELSE Append(keep, i))

\* the loop started at the second vector
deduplicate_from_second(cs, vs) ==
    IF vs = <<>> THEN <<cs, vs>>
    ELSE LET keep == DedupKeep(vs, 2, <<>>)
         IN  << [k \in 1..Len(keep) |-> cs[keep[k]]],
                [k \in 1..Len(keep) |-> vs[keep[k]]] >>

\* returns the chunks and the vectors of the keep list
deduplicate(cs, vs) ==
    IF vs = <<>> THEN <<cs, vs>>
    ELSE LET keep == DedupKeep(vs, 1, <<>>)
         IN  << [k \in 1..Len(keep) |-> cs[keep[k]]],
                [k \in 1..Len(keep) |-> vs[keep[k]]] >>

----------------------------------------------------------------------------
(* The content store: table playstation_content.  A row is                 *)
(* [id, text, embedding, source_url, scraped_at]; the BIGSERIAL id is      *)
(* given as <<job, ordinal of the job's fetch, ordinal of the row>>, which *)
(* is unique for every INSERT made.  page_title is left out: nothing reads *)
(* it.                                                                     *)

Min(a, b) == IF a < b THEN a ELSE b

RowsOf(rows, u) == {r \in rows : r.source_url = u}

\* the DELETE left out
DeleteRowsNone(rows, u) == rows

\* DELETE FROM playstation_content WHERE source_url = u
DeleteRows(rows, u) == {r \in rows : r.source_url # u}

\* the INSERTs of the loop over zip(chunks, vectors), the first n of them
InsertRows(run, u, cs, vs, now, n) ==
    { [id |-> <<run[1], run[2], i>>, text |-> cs[i].text, embedding |-> vs[i],
       source_url |-> u, scraped_at |-> now] : i \in 1..n }

\* the INSERTs committed without the DELETE of the same transaction
store_chunks_insert_only(rows, run, u, cs, vs, now) ==
    rows \cup InsertRows(run, u, cs, vs, now, Min(Len(cs), Len(vs)))

\* the table after store_chunks has committed
store_chunks(rows, run, u, cs, vs, now) ==
    DeleteRows(rows, u) \cup InsertRows(run, u, cs, vs, now, Min(Len(cs), Len(vs)))

\* SELECT 1 ... WHERE source_url = u AND scraped_at > cutoff LIMIT 1
is_recently_scraped(rows, u, now) ==
    LET cutoff == now - SCRAPE_COOLDOWN_HOURS
    IN  \E r \in rows : r.source_url = u /\ r.scraped_at > cutoff

\* rows an earlier crawl left in the table
OldRows == { [id |-> <<0, 0, 1>>, text |-> "ps4 specs", embedding |-> <<1, 1>>,
              source_url |-> Home, scraped_at |-> 0] }
InitStores == { {}, OldRows }

----------------------------------------------------------------------------
(* The embedding endpoint: embed_documents returns one vector per chunk or *)
(* raises.  An error message is given by the markers its lower-cased text  *)
(* contains.                                                               *)

RateMarkers == {"429", "rate", "quota", "resource"}
ErrorMessages == { {"429", "resource"}, {"quota"}, {} }

\* every error taken for a rate limit
IsRateLimitAlways(error_msg) == TRUE

IsRateLimit(error_msg) == error_msg \cap RateMarkers # {}

embed_documents(cs) == [i \in 1..Len(cs) |-> cs[i].vec]

\* one attempt too many
AttemptInRangeOneMore(attempt) == attempt <= EMBED_RETRIES + 1

\* for attempt in range(1, EMBED_RETRIES + 1)
AttemptInRange(attempt) == attempt <= EMBED_RETRIES

\* embed_with_retry of the page in the pipeline: the loop variable, the calls
\* of embed_documents and of time.sleep made, the errors embed_documents
\* raised with and without a rate-limit marker, and how the call ended
EmbIdle == [attempt |-> 0, calls |-> 0, sleeps |-> 0, rate |-> 0, other |-> 0,
            out |-> "idle"]

----------------------------------------------------------------------------
(* crawl_site                                                              *)

base_domain(j) == urlparse(start_url[j]).netloc

Range(seq) == {seq[i] : i \in 1..Len(seq)}

\* crawl_site has not returned yet
Pending == <<"pending">>

\* the value of a call that ends without a return statement
None == <<>>

\* no connection with uncommitted work
NoTxn == <<>>

\* no filter_chunks / deduplicate call on its own is being looked at
PureIdle == [fn |-> "none"]

\* The /scrape endpoint has added one crawl_site task for every URL of the
\* requests received (the jobs of `triggered`); the other jobs never start.
InitWith(triggered, sites) ==
    /\ start_url \in [Jobs -> StartURLs]
    /\ max_pages \in [Jobs -> 1..MaxBudget]
    /\ \A j \in Jobs \ triggered : start_url[j] = Home /\ max_pages[j] = 1
    /\ web = sites
    /\ visited = [j \in Jobs |-> {}]
    /\ queue = [j \in Jobs |-> <<start_url[j]>>]
    /\ pages_processed = [j \in Jobs |-> 0]
    /\ pc = [j \in Jobs |-> IF j \in triggered THEN "enter" ELSE "idle"]
    /\ url = [j \in Jobs |-> EmptyHref]
    /\ result = [j \in Jobs |-> NoResult]
    /\ chunks = [j \in Jobs |-> <<>>]
    /\ vectors = [j \in Jobs |-> <<>>]
    /\ emb = [j \in Jobs |-> EmbIdle]
    /\ store \in InitStores
    /\ clock = 0
    /\ running = NoJob
    /\ popped = [j \in Jobs |-> <<>>]
    /\ fetched = [j \in Jobs |-> <<>>]
    /\ stored = [j \in Jobs |-> <<>>]
    /\ noop = [j \in Jobs |-> 0]
    /\ retval = [j \in Jobs |-> Pending]
    /\ depth = [j \in Jobs |-> [u \in {start_url[j]} |-> 0]]
    /\ txn = [j \in Jobs |-> NoTxn]

\* one request with one seed URL
Init == InitWith({1}, Results) /\ pure = PureIdle

\* two crawl jobs in the event loop at once, crawling a small site
TwoJobResults ==
    { NoResult,
      [success |-> TRUE, links |-> <<PageA, OtherB>>,
       markdown |-> [fit |-> <<Good1>>, raw |-> <<>>]],
      [success |-> TRUE, links |-> NoLinks,
       markdown |-> [fit |-> <<Good1, Near1, Good2>>, raw |-> <<>>]] }
InitJobs == InitWith(Jobs, TwoJobResults) /\ pure = PureIdle

\* one crawl job on a site of three pages, the third one reached from the
\* second only
DeepSiteResults ==
    { NoResult,
      [success |-> TRUE, links |-> <<EmptyHref, Home, PageASec>>,
       markdown |-> [fit |-> <<Good1>>, raw |-> <<>>]],
      [success |-> TRUE, links |-> <<PageASec, PageA, PageC>>,
       markdown |-> [fit |-> <<>>, raw |-> <<Good2>>]],
      [success |-> TRUE, links |-> NoLinks,
       markdown |-> [fit |-> <<Short>>, raw |-> <<>>]] }
InitDeep == InitWith({1}, DeepSiteResults) /\ pure = PureIdle

\* time passes
Tick ==
    /\ clock < MaxClock
    /\ clock' = clock + 1
    /\ UNCHANGED <<start_url, max_pages, visited, queue, pages_processed, pc, url,
                   result, chunks, vectors, emb, store, running, fetched, stored, noop, web,
                   popped,
                   retval, depth, txn, pure>>

\* async with AsyncWebCrawler() as crawler: the coroutine is resumed in the loop
Enter(j) ==
    /\ pc[j] = "enter"
    /\ running = NoJob
    /\ running' = j
    /\ pc' = [pc EXCEPT ![j] = "loop"]
    /\ UNCHANGED <<start_url, max_pages, visited, queue, pages_processed, url, result,
                   chunks, vectors, emb, store, clock, fetched, stored, noop, web,
                   popped,
                   retval, depth, txn, pure>>

\* the budget test off by one
LoopGuardOffByOne(j) == queue[j] # <<>> /\ pages_processed[j] <= max_pages[j]

\* while queue and pages_processed < max_pages
LoopGuard(j) == queue[j] # <<>> /\ pages_processed[j] < max_pages[j]

\* the visited test left out
AlreadyVisitedNever(j, u) == FALSE

\* if url in visited: continue
AlreadyVisited(j, u) == u \in visited[j]

\* the loop ends: line 178 logs pages_processed and the body of crawl_site
\* ends there, with no return statement
Exit(j) ==
    /\ pc[j] = "loop"
    /\ running = j
    /\ ~LoopGuard(j)
    /\ pc' = [pc EXCEPT ![j] = "done"]
    /\ retval' = [retval EXCEPT ![j] = None]
    /\ running' = NoJob
    /\ UNCHANGED <<start_url, max_pages, visited, queue, pages_processed, url, result,
                   chunks, vectors, emb, store, clock, fetched, stored, noop, web,
                   popped, depth, txn, pure>>

\* the last entry taken instead of the first
QueuePopLast(q) == <<q[Len(q)], SubSeq(q, 1, Len(q) - 1)>>

\* queue.pop(0): the first entry, and the queue without it
QueuePop(q) == <<Head(q), Tail(q)>>

\* url = queue.pop(0); the visited check; visited.add(url)
Pop(j) ==
    /\ pc[j] = "loop"
    /\ running = j
    /\ LoopGuard(j)
    /\ LET u == QueuePop(queue[j])[1]
       IN  /\ queue' = [queue EXCEPT ![j] = QueuePop(@)[2]]
           /\ url' = [url EXCEPT ![j] = u]
           /\ popped' = [popped EXCEPT ![j] = Append(@, u)]
           /\ IF AlreadyVisited(j, u)
              THEN UNCHANGED <<visited, pc>>
              ELSE /\ visited' = [visited EXCEPT ![j] = @ \cup {u}]
                   /\ pc' = [pc EXCEPT ![j] = "fresh"]
    /\ UNCHANGED <<start_url, max_pages, pages_processed, result, chunks, vectors,
                   emb, store, clock, running, fetched, stored, noop, web,
                   retval, depth, txn, pure>>

\* the answer of the freshness query not acted on
SkipFreshNever(found) == FALSE

\* if is_recently_scraped(url): continue
SkipFresh(found) == found

\* if is_recently_scraped(url): continue; else the job awaits crawler.arun.
\* The query is made outside every try block: an error of the database
\* (db_error) leaves crawl_site.
Freshness(j) ==
    /\ pc[j] = "fresh"
    /\ running = j
    /\ \E db_error \in BOOLEAN :
          IF db_error
          THEN /\ pc' = [pc EXCEPT ![j] = "crashed"]
               /\ running' = NoJob
          ELSE IF SkipFresh(is_recently_scraped(store, url[j], clock))
          THEN /\ pc' = [pc EXCEPT ![j] = "loop"]
               /\ UNCHANGED running
          ELSE /\ pc' = [pc EXCEPT ![j] = "fetch"]
               /\ running' = NoJob
    /\ UNCHANGED <<start_url, max_pages, visited, queue, pages_processed, url, result,
                   chunks, vectors, emb, store, clock, fetched, stored, noop, web,
                   popped,
                   retval, depth, txn, pure>>

\* result = await crawler.arun(url): it raises, or returns a result, which
\* may be unsuccessful; the coroutine is resumed in the loop
Fetch(j) ==
    /\ pc[j] = "fetch"
    /\ running = NoJob
    /\ running' = j
    /\ fetched' = [fetched EXCEPT ![j] = Append(@, url[j])]
    /\ \E raised \in BOOLEAN, res \in web :
          IF raised
          THEN /\ res = NoResult
               /\ pc' = [pc EXCEPT ![j] = "loop"]
               /\ UNCHANGED result
          ELSE IF ~res.success
          THEN /\ pc' = [pc EXCEPT ![j] = "loop"]
               /\ UNCHANGED result
          ELSE /\ pc' = [pc EXCEPT ![j] = "links"]
               /\ result' = [result EXCEPT ![j] = res]
    /\ UNCHANGED <<start_url, max_pages, visited, queue, pages_processed, url,
                   chunks, vectors, emb, store, clock, stored, noop, web,
                   popped,
                   retval, depth, txn, pure>>

\* the domain test left out
SameDomainAny(href, base) == TRUE

\* parsed.netloc == base_domain
SameDomain(href, base) == urlparse(href).netloc = base

\* the URLs the loop over result.links["internal"] appends to the queue
RECURSIVE Discovered(_, _, _)
Discovered(links, seen, base) ==
    IF links = <<>> THEN <<>>
    ELSE LET href == Head(links)
             parsed == urlparse(href)
             rest == Discovered(Tail(links), seen, base)
         IN  IF href # EmptyHref /\ href \notin seen /\ SameDomain(href, base)
             THEN <<geturl([parsed EXCEPT !.fragment = ""])>> \o rest
             ELSE rest

\* markdown: fit_markdown, or raw_markdown when that is empty
ResolveMarkdown(md) == IF md.fit # <<>> THEN md.fit ELSE md.raw

\* the depth of the URLs queued from a page of depth d: a URL queued before
\* keeps the depth it was first queued at
DepthAfter(dep, us, d) ==
    [u \in DOMAIN dep \cup Range(us) |-> IF u \in DOMAIN dep THEN dep[u] ELSE d + 1]

\* lines 151-168: the links are enqueued; a page with no content is skipped
DiscoverLinks(j) ==
    /\ pc[j] = "links"
    /\ running = j
    /\ LET new == IF result[j].links = NoLinks THEN <<>>
                  ELSE Discovered(result[j].links, visited[j], base_domain(j))
       IN  /\ queue' = [queue EXCEPT ![j] = @ \o new]
           /\ depth' = [depth EXCEPT ![j] = DepthAfter(@, new, @[url[j]])]
    /\ IF ResolveMarkdown(result[j].markdown) = <<>>
       THEN /\ pc' = [pc EXCEPT ![j] = "loop"]
            /\ result' = [result EXCEPT ![j] = NoResult]
       ELSE /\ pc' = [pc EXCEPT ![j] = "pipeline"]
            /\ UNCHANGED result
    /\ UNCHANGED <<start_url, max_pages, visited, pages_processed, url, chunks,
                   vectors, emb, store, clock, running, fetched, stored, noop, web,
                   popped, retval, txn, pure>>

----------------------------------------------------------------------------
(* embed_and_store, called in the try block of crawl_site                  *)

\* the increment moved out of the try block
PagesAfterAlways(n, returned) == n + 1

\* pages_processed after the try block of lines 172-176: the increment is
\* reached only when embed_and_store returned
PagesAfter(n, returned) == IF returned THEN n + 1 ELSE n

\* the early return left out
NoChunksNever(kept) == FALSE

\* if not chunks
NoChunks(kept) == kept = <<>>

\* lines 183-190: split, filter; with no chunk left the call returns at once
EmbedAndStore(j) ==
    /\ pc[j] = "pipeline"
    /\ running = j
    /\ LET raw_chunks == ResolveMarkdown(result[j].markdown)
           kept == filter_chunks(raw_chunks)
       IN  IF NoChunks(kept)
           THEN /\ pages_processed' =
                      [pages_processed EXCEPT ![j] = PagesAfter(@, TRUE)]
                /\ noop' = [noop EXCEPT ![j] = @ + 1]
                /\ pc' = [pc EXCEPT ![j] = "loop"]
                /\ result' = [result EXCEPT ![j] = NoResult]
                /\ UNCHANGED <<chunks, emb>>
           ELSE /\ chunks' = [chunks EXCEPT ![j] = kept]
                /\ emb' = [emb EXCEPT ![j] = [EmbIdle EXCEPT !.attempt = 1,
                                                               !.out = "running"]]
                /\ pc' = [pc EXCEPT ![j] = "embed"]
                /\ UNCHANGED <<pages_processed, noop, result>>
    /\ UNCHANGED <<start_url, max_pages, visited, queue, url, vectors, store, clock,
                   running, fetched, stored, web, popped,
                   retval, depth, txn, pure>>

\* one pass of the loop of embed_with_retry: embed_documents returns, or it
\* raises and the message decides between sleep-and-retry and re-raise
EmbedAttempt(j) ==
    /\ pc[j] = "embed"
    /\ running = j
    /\ AttemptInRange(emb[j].attempt)
    /\ \E ok \in BOOLEAN, error_msg \in ErrorMessages :
          IF ok
          THEN /\ error_msg = {}
               /\ vectors' = [vectors EXCEPT ![j] = embed_documents(chunks[j])]
               /\ emb' = [emb EXCEPT ![j].calls = @ + 1, ![j].out = "ok"]
               /\ pc' = [pc EXCEPT ![j] = "store"]
          ELSE LET raised == [emb[j] EXCEPT
                                 !.calls = @ + 1,
                                 !.rate = IF error_msg \cap RateMarkers # {}
                                          THEN @ + 1 ELSE @,
                                 !.other = IF error_msg \cap RateMarkers # {}
                                           THEN @ ELSE @ + 1]
               IN  IF IsRateLimit(error_msg)
                   THEN /\ emb' = [emb EXCEPT ![j] =
                                     [raised EXCEPT !.sleeps = @ + 1, !.attempt = @ + 1]]
                        /\ UNCHANGED <<vectors, pc>>
                   ELSE /\ emb' = [emb EXCEPT ![j] = [raised EXCEPT !.out = "error"]]
                        /\ pc' = [pc EXCEPT ![j] = "except"]
                        /\ UNCHANGED vectors
    /\ UNCHANGED <<start_url, max_pages, visited, queue, pages_processed, url, result,
                   chunks, store, clock, running, fetched, stored, noop, web,
                   popped,
                   retval, depth, txn, pure>>

\* line 120: the loop is over, RuntimeError is raised
EmbedExhausted(j) ==
    /\ pc[j] = "embed"
    /\ running = j
    /\ ~AttemptInRange(emb[j].attempt)
    /\ emb' = [emb EXCEPT ![j].out = "exhausted"]
    /\ pc' = [pc EXCEPT ![j] = "except"]
    /\ UNCHANGED <<start_url, max_pages, visited, queue, pages_processed, url, result,
                   chunks, vectors, store, clock, running, fetched, stored, noop, web,
                   popped,
                   retval, depth, txn, pure>>

\* the table as the transaction of store_chunks sees it when `done`
\* statements have been executed: none, the DELETE, the DELETE and INSERTs
TxnView(rows, run, u, cs, vs, now, done) ==
    IF done = 0 THEN rows
    ELSE DeleteRows(rows, u) \cup InsertRows(run, u, cs, vs, now, done - 1)

\* the work of the failed transaction becomes visible
ConnectionDroppedCommits(rows, view) == IF view = NoTxn THEN rows ELSE view[1]

\* store_chunks raised before conn.commit(): the connection is dropped with
\* its transaction open, and the server rolls the transaction back
ConnectionDropped(rows, view) == rows

\* lines 195-197 and 174: deduplicate, then store_chunks in one transaction;
\* when the connection or a statement fails (after `done` statements were
\* executed) nothing was committed and the error is raised
StoreChunks(j) ==
    /\ pc[j] = "store"
    /\ running = j
    /\ LET d == deduplicate(chunks[j], vectors[j])
           run == <<j, Len(fetched[j])>>
           n == Min(Len(d[1]), Len(d[2]))
       IN  \E failed \in BOOLEAN, done \in 0..(n + 1) :
             IF failed
             THEN /\ pc' = [pc EXCEPT ![j] = "except"]
                  /\ txn' = [txn EXCEPT ![j] =
                        <<TxnView(store, run, url[j], d[1], d[2], clock, done)>>]
                  /\ UNCHANGED <<store, stored, pages_processed, result, chunks,
                                 vectors, emb>>
             ELSE /\ done = n + 1
                  /\ store' = store_chunks(store, run, url[j], d[1], d[2], clock)
                  /\ UNCHANGED txn
                  /\ stored' = [stored EXCEPT ![j] = Append(@,
                        [url |-> url[j], run |-> run, n |-> n, at |-> clock,
                         prior |-> Cardinality(RowsOf(store, url[j]))])]
                  /\ pages_processed' =
                        [pages_processed EXCEPT ![j] = PagesAfter(@, TRUE)]
                  /\ pc' = [pc EXCEPT ![j] = "loop"]
                  /\ result' = [result EXCEPT ![j] = NoResult]
                  /\ chunks' = [chunks EXCEPT ![j] = <<>>]
                  /\ vectors' = [vectors EXCEPT ![j] = <<>>]
                  /\ emb' = [emb EXCEPT ![j] = EmbIdle]
    /\ UNCHANGED <<start_url, max_pages, visited, queue, url, clock, running,
                   fetched, noop, web,
                   popped, retval, depth, pure>>

\* lines 175-176: except Exception: the failure is logged, the loop goes on;
\* the connection of a failed store_chunks goes away with the exception
LogFailure(j) ==
    /\ pc[j] = "except"
    /\ running = j
    /\ store' = ConnectionDropped(store, txn[j])
    /\ txn' = [txn EXCEPT ![j] = NoTxn]
    /\ pages_processed' = [pages_processed EXCEPT ![j] = PagesAfter(@, FALSE)]
    /\ pc' = [pc EXCEPT ![j] = "loop"]
    /\ result' = [result EXCEPT ![j] = NoResult]
    /\ chunks' = [chunks EXCEPT ![j] = <<>>]
    /\ vectors' = [vectors EXCEPT ![j] = <<>>]
    /\ emb' = [emb EXCEPT ![j] = EmbIdle]
    /\ UNCHANGED <<start_url, max_pages, visited, queue, url, clock, running,
                   fetched, stored, noop, web,
                   popped, retval, depth, pure>>

----------------------------------------------------------------------------

Next ==
    \/ Tick
    \/ \E j \in Jobs :
          \/ Enter(j)
          \/ Exit(j)
          \/ Pop(j)
          \/ Freshness(j)
          \/ Fetch(j)
          \/ DiscoverLinks(j)
          \/ EmbedAndStore(j)
          \/ EmbedAttempt(j)
          \/ EmbedExhausted(j)
          \/ StoreChunks(j)
          \/ LogFailure(j)

Spec == Init /\ [][Next]_vars

SpecJobs == InitJobs /\ [][Next]_vars

SpecDeep == InitDeep /\ [][Next]_vars

\* the steps of job j
JobStep(j) ==
    \/ Enter(j)
    \/ Exit(j)
    \/ Pop(j)
    \/ Freshness(j)
    \/ Fetch(j)
    \/ DiscoverLinks(j)
    \/ EmbedAndStore(j)
    \/ EmbedAttempt(j)
    \/ EmbedExhausted(j)
    \/ StoreChunks(j)
    \/ LogFailure(j)

\* The event loop runs every coroutine that can go on, and every call of a
\* collaborator returns or raises: a job that can take a step takes one.
SpecLive == Init /\ [][Next]_vars /\ \A j \in Jobs : WF_vars(JobStep(j))

----------------------------------------------------------------------------
(* filter_chunks and deduplicate on their own: a call with an input drawn  *)
(* from a bounded set, and for deduplicate a second call on the result of  *)
(* the first.                                                              *)

crawl_vars == <<start_url, max_pages, visited, queue, pages_processed, pc, url, result,
                chunks, vectors, emb, store, clock, running, popped, fetched, stored,
                noop, web, retval, depth, txn>>

\* embedding vectors: VEq is at similarity 0.95 to V1 (19 / sqrt(400)),
\* VNear is above 0.95 to V1 and to VEq, VChain is above 0.95 to VEq and
\* VNear but below it to V1, VFar is orthogonal to V1, VZero has norm 0
V1     == <<1, 0, 0, 0, 0>>
VEq    == <<19, 5, 3, 2, 1>>
VNear  == <<20, 5, 3, 2, 1>>
VChain == <<18, 5, 3, 2, 1>>
VFar   == <<0, 1, 0, 0, 0>>
VZero  == <<0, 0, 0, 0, 0>>
DedupVectors == {V1, VEq, VNear, VChain, VFar, VZero}

\* a call of deduplicate with the vectors vs: chunk i is the text i
DedupInput(vs) ==
    [fn |-> "deduplicate", chunks |-> [i \in 1..Len(vs) |-> i], vectors |-> vs,
     out |-> <<>>]

\* raw chunks around every limit of filter_chunks: the length with and
\* without surrounding whitespace, the word count, the link ratio (6 links
\* in 20 words is the ratio 0.3), the keyword
FilterLengths == { <<99, 0>>, <<100, 0>>, <<101, 2>>, <<1000, 0>>, <<1001, 0>>,
                   <<1002, 2>> }
FilterWordsLinks == { <<14, 0>>, <<15, 0>>, <<15, 5>>, <<20, 6>>, <<20, 7>> }
FilterChunkSet ==
    { Chunk("text", lp[2], lp[1], wl[1], wl[2], kw, <<1, 0>>) :
        lp \in FilterLengths, wl \in FilterWordsLinks, kw \in BOOLEAN }

\* a call of filter_chunks with the raw chunks cs
FilterInput(cs) ==
    [fn |-> "filter_chunks", chunks |-> cs, vectors |-> <<>>, out |-> <<>>]

InitPure ==
    /\ InitWith({}, {NoResult})
    /\ store = {}
    /\ \/ \E n \in 0..DedupMaxLen : \E vs \in [1..n -> DedupVectors] :
             pure = DedupInput(vs)
       \/ \E n \in 0..FilterMaxLen : \E cs \in [1..n -> FilterChunkSet] :
             pure = FilterInput(cs)

\* chunks, vectors = deduplicate(chunks, vectors)
Deduplicate ==
    /\ pure.fn = "deduplicate"
    /\ pure.out = <<>>
    /\ pure' = [pure EXCEPT !.out = <<deduplicate(pure.chunks, pure.vectors)>>]
    /\ UNCHANGED crawl_vars

\* deduplicate called on what the first call returned
DeduplicateAgain ==
    /\ pure.fn = "deduplicate"
    /\ Len(pure.out) = 1
    /\ pure' = [pure EXCEPT !.out =
                   Append(@, deduplicate(pure.out[1][1], pure.out[1][2]))]
    /\ UNCHANGED crawl_vars

\* chunks = filter_chunks(raw_chunks)
FilterChunks ==
    /\ pure.fn = "filter_chunks"
    /\ pure.out = <<>>
    /\ pure' = [pure EXCEPT !.out = <<filter_chunks(pure.chunks)>>]
    /\ UNCHANGED crawl_vars

NextPure == Deduplicate \/ DeduplicateAgain \/ FilterChunks

SpecPure == InitPure /\ [][NextPure]_vars

----------------------------------------------------------------------------
(* Properties                                                              *)

\* C1 (budget stop): pages_processed never exceeds max_pages; once it equals
\* max_pages the job pops, fetches and indexes nothing more; and a job that
\* left its loop with URLs still in the frontier processed exactly max_pages.
BudgetStop ==
    /\ [](\A j \in Jobs : pages_processed[j] <= max_pages[j])
    /\ [][\A j \in Jobs :
            pages_processed[j] = max_pages[j] =>
                /\ queue'[j] = queue[j]
                /\ visited'[j] = visited[j]
                /\ popped'[j] = popped[j]
                /\ fetched'[j] = fetched[j]
                /\ stored'[j] = stored[j]
                /\ pages_processed'[j] = pages_processed[j]]_vars
    /\ [](\A j \in Jobs :
            pc[j] = "done" /\ queue[j] # <<>> => pages_processed[j] = max_pages[j])

\* a job with budget 2 has ended on its budget with the frontier not drained
BudgetStopSeen ==
    \E j \in Jobs :
        /\ pc[j] = "done"
        /\ max_pages[j] = 2
        /\ pages_processed[j] = 2
        /\ queue[j] # <<>>

\* C2 (visited dedup): no URL is handed to crawler.arun twice by one job.
VisitedDedup ==
    \A j \in Jobs : \A i, k \in 1..Len(fetched[j]) :
        i # k => fetched[j][i] # fetched[j][k]

\* a URL that was in the frontier twice has been popped twice and fetched once
VisitedDedupSeen ==
    \E j \in Jobs : \E i, k \in 1..Len(popped[j]) :
        /\ i < k
        /\ popped[j][i] = popped[j][k]
        /\ popped[j][i] \in Range(fetched[j])

\* C3 (frontier scope): every URL in the frontier, and every URL popped or
\* fetched, has the netloc of the start URL.
FrontierScope ==
    \A j \in Jobs :
        \A u \in Range(queue[j]) \cup Range(popped[j]) \cup Range(fetched[j]) :
            urlparse(u).netloc = urlparse(start_url[j]).netloc

\* a fetched page gave a link of the job's domain and one of another host;
\* the first is in the frontier
FrontierScopeSeen ==
    \E j \in Jobs :
        /\ pc[j] = "pipeline"
        /\ result[j].links = <<PageA, OtherB>>
        /\ PageA \in Range(queue[j])
        /\ OtherB \notin Range(queue[j])

\* C4 (errors never end a job): no job is ever left by an exception.
NoErrorEndsJob == \A j \in Jobs : pc[j] # "crashed"

\* C5 as stated: pages_processed is the number of pages whose rows were
\* persisted.
CountsPersistedOnly ==
    \A j \in Jobs : pages_processed[j] = Len(stored[j])

\* C5 as amended: pages_processed is the number of pages for which
\* embed_and_store returned: those persisted and those that returned with
\* no chunk left; fetch failures, empty pages and raised errors do not count.
CountsReturnedPipelines ==
    \A j \in Jobs :
        /\ pages_processed[j] = Len(stored[j]) + noop[j]
        /\ pages_processed[j] <= Len(fetched[j])

\* a job has counted a persisted page and a page with no chunk left, and has
\* fetched a third page that it did not count
CountsReturnedPipelinesSeen ==
    \E j \in Jobs :
        /\ Len(stored[j]) = 1
        /\ noop[j] = 1
        /\ Len(fetched[j]) = 3
        /\ pc[j] = "done"

\* C6 (replace semantics): when store_chunks commits M > 0 deduplicated chunks
\* for a URL, the table then holds exactly M rows for that URL, all inserted
\* by this call (its ids, its texts, its timestamp) and none that was there
\* before, and the rows of every other URL are as before.
ReplaceSemantics ==
    [][\A j \in Jobs :
         (pc[j] = "store" /\ pc'[j] = "loop") =>
            LET u == url[j]
                d == deduplicate(chunks[j], vectors[j])[1]
                M == Len(d)
                after == {r \in store' : r.source_url = u}
            IN  M > 0 =>
                  /\ Cardinality(after) = M
                  /\ after \cap store = {}
                  /\ \A r \in after : /\ r.id[1] = j
                                      /\ r.id[2] = Len(fetched[j])
                                      /\ r.id[3] \in 1..M
                                      /\ r.text = d[r.id[3]].text
                                      /\ r.scraped_at = clock
                  /\ {r \in store' : r.source_url # u}
                        = {r \in store : r.source_url # u}]_vars

\* a URL that had 1 row stored has been indexed again with 2 chunks
ReplaceSemanticsSeen ==
    \E j \in Jobs : \E k \in 1..Len(stored[j]) :
        /\ stored[j][k].prior = 1
        /\ stored[j][k].n = 2
        /\ Cardinality({r \in store : r.source_url = stored[j][k].url}) = 2

\* C7 (zero-chunk re-index): when the filter keeps no chunk of the page,
\* embed_and_store returns with no call of embed_documents and with the
\* table, the rows stored for the URL and their scraped_at included, as it was.
ZeroChunkReindex ==
    [][\A j \in Jobs :
         ( /\ pc[j] = "pipeline"
           /\ pc'[j] # "pipeline"
           /\ filter_chunks(ResolveMarkdown(result[j].markdown)) = <<>> ) =>
            /\ store' = store
            /\ emb'[j].calls = 0
            /\ pc'[j] = "loop"
            /\ stored'[j] = stored[j]]_vars

\* the start URL had a row stored, was fetched again and gave no chunk the
\* filter keeps; the old row is still there
ZeroChunkReindexSeen ==
    \E j \in Jobs :
        /\ noop[j] = 1
        /\ fetched[j] = <<Home>>
        /\ pc[j] = "loop"
        /\ OldRows \subseteq store

\* C8 (replace is serialized across jobs): whatever the interleaving of the
\* jobs, the rows the table holds for a URL are the rows of one single
\* store_chunks call, all of them, or the rows the earlier crawl left.
SingleRunPerURL ==
    \A u \in {r.source_url : r \in store} :
        LET ids == {r.id : r \in {x \in store : x.source_url = u}}
        IN  \/ ids = {r.id : r \in OldRows}
            \/ \E j \in Jobs : \E k \in 1..Len(stored[j]) :
                  /\ stored[j][k].url = u
                  /\ ids = { <<stored[j][k].run[1], stored[j][k].run[2], i>> :
                                i \in 1..stored[j][k].n }

\* both jobs have indexed the same URL, with 1 and with 2 chunks, and ended
SingleRunPerURLSeen ==
    /\ \A j \in Jobs : pc[j] = "done"
    /\ \E k1 \in 1..Len(stored[1]) : \E k2 \in 1..Len(stored[2]) :
          /\ stored[1][k1].url = stored[2][k2].url
          /\ stored[1][k1].n # stored[2][k2].n

\* C9 (embedding retry): embed_with_retry never calls embed_documents more
\* than EMBED_RETRIES times; when it returns after k rate-limit errors it has
\* made k + 1 calls and slept k times, with k < EMBED_RETRIES; after
\* EMBED_RETRIES rate-limit errors it has made EMBED_RETRIES calls and its
\* next step raises the exhaustion error without another call.
EmbedRetry ==
    /\ [](\A j \in Jobs :
            /\ emb[j].calls <= EMBED_RETRIES
            /\ emb[j].out = "ok" =>
                  /\ emb[j].rate < EMBED_RETRIES
                  /\ emb[j].calls = emb[j].rate + 1
                  /\ emb[j].sleeps = emb[j].rate
            /\ emb[j].rate = EMBED_RETRIES =>
                  /\ emb[j].calls = EMBED_RETRIES
                  /\ emb[j].out \in {"running", "exhausted"}
            /\ emb[j].out = "exhausted" => emb[j].rate = EMBED_RETRIES)
    /\ [][\A j \in Jobs :
            ( /\ emb[j].rate = EMBED_RETRIES
              /\ emb[j].out = "running"
              /\ emb'[j] # emb[j] ) =>
               /\ emb'[j].out = "exhausted"
               /\ emb'[j].calls = emb[j].calls]_vars

\* embed_with_retry has returned after 4 rate-limit errors
EmbedRetrySeen ==
    \E j \in Jobs :
        /\ emb[j].out = "ok"
        /\ emb[j].rate = 4
        /\ emb[j].calls = 5
        /\ emb[j].sleeps = 4

\* C10 (no retry of other errors): an error of embed_documents without a
\* rate-limit marker ends embed_with_retry at once, with no sleep for it and
\* no further call; the job then logs the failure and goes back to its loop
\* without counting the page and without touching the table.
NoRetryOfOtherErrors ==
    /\ [](\A j \in Jobs :
            emb[j].other >= 1 =>
                /\ emb[j].other = 1
                /\ emb[j].out = "error"
                /\ emb[j].calls = emb[j].rate + 1
                /\ emb[j].sleeps = emb[j].rate
                /\ pc[j] = "except")
    /\ [][\A j \in Jobs :
            (emb[j].out = "error" /\ pc'[j] # pc[j]) =>
                /\ pc'[j] = "loop"
                /\ pages_processed'[j] = pages_processed[j]
                /\ emb'[j].calls = 0
                /\ store' = store
                /\ stored'[j] = stored[j]]_vars

\* an error that is no rate limit came at the third attempt
NoRetryOfOtherErrorsSeen ==
    \E j \in Jobs :
        /\ emb[j].out = "error"
        /\ emb[j].rate = 2
        /\ emb[j].calls = 3
        /\ emb[j].sleeps = 2

\* C11 (dedup idempotence): deduplicate applied to what deduplicate returned
\* returns the same chunks and the same vectors.
DedupIdempotent ==
    pure.fn = "deduplicate" /\ Len(pure.out) = 2 => pure.out[2] = pure.out[1]

\* the first call dropped a chunk and kept two, and the second call was made
DedupIdempotentSeen ==
    /\ pure.fn = "deduplicate"
    /\ Len(pure.out) = 2
    /\ Len(pure.chunks) = 3
    /\ Len(pure.out[1][1]) = 2

\* the cosine similarity of a and b is above 0.95 (a vector of norm 0 has
\* similarity 0 to every vector)
CosineAbove(a, b) ==
    /\ Dot(a, a) > 0 /\ Dot(b, b) > 0 /\ Dot(a, b) > 0
    /\ 400 * Dot(a, b) * Dot(a, b) > 361 * Dot(a, a) * Dot(b, b)

\* C12 (dedup is greedy, order-preserving, strict at the threshold): chunk i
\* is dropped exactly when an earlier kept chunk has cosine similarity above
\* 0.95 to it (at exactly 0.95 both are kept); the first chunk is kept; no
\* two kept chunks are above 0.95; the kept chunks are in input order and
\* the vectors returned are theirs.
DedupGreedy ==
    pure.fn = "deduplicate" /\ Len(pure.out) >= 1 =>
        LET vs == pure.vectors
            kept == pure.out[1][1]
            K == Range(kept)
        IN  /\ K \subseteq 1..Len(vs)
            /\ \A i \in 1..Len(vs) :
                  i \notin K <=> \E j \in K : j < i /\ CosineAbove(vs[i], vs[j])
            /\ Len(vs) >= 1 => 1 \in K
            /\ \A i, j \in K : i # j => ~CosineAbove(vs[i], vs[j])
            /\ \A k \in 1..(Len(kept) - 1) : kept[k] < kept[k + 1]
            /\ pure.out[1][2] = [k \in 1..Len(kept) |-> vs[kept[k]]]
            /\ vs = <<V1, VEq>> => kept = <<1, 2>>

\* of three chunks, the second at similarity exactly 0.95 to the first and
\* the third above 0.95 to the second only, the first two were kept
DedupGreedySeen ==
    /\ pure.fn = "deduplicate"
    /\ pure.vectors = <<V1, VEq, VChain>>
    /\ Len(pure.out) >= 1
    /\ pure.out[1] = << <<1, 2>>, <<V1, VEq>> >>

\* the four checks of the relevance filter, on a trimmed chunk
PassesFilter(c) ==
    /\ c.len >= 100 /\ c.len <= 1000
    /\ c.words >= 15
    /\ 10 * c.links <= 3 * c.words
    /\ c.kw

\* C13 (relevance filter): the chunks returned are the trimmed input chunks
\* that pass all four checks (trimmed length in [100, 1000], 15 words or
\* more, links / words <= 0.3, a keyword), in input order; a chunk with a
\* link ratio above 0.3 or with no keyword is not returned.
RelevanceFilter ==
    pure.fn = "filter_chunks" /\ Len(pure.out) = 1 =>
        LET trimmed == [i \in 1..Len(pure.chunks) |-> strip(pure.chunks[i])]
            kept == pure.out[1]
        IN  /\ kept = SelectSeq(trimmed, PassesFilter)
            /\ \A k \in 1..Len(kept) : PassesFilter(kept[k])
            /\ \A i \in 1..Len(trimmed) :
                  10 * trimmed[i].links > 3 * trimmed[i].words \/ ~trimmed[i].kw
                      => trimmed[i] \notin Range(kept)

\* a chunk of ratio exactly 0.3 and trimmed length 1000 was kept, after a
\* chunk of ratio 0.35 that was not
RelevanceFilterSeen ==
    /\ pure.fn = "filter_chunks"
    /\ Len(pure.out) = 1
    /\ Len(pure.chunks) = 2
    /\ pure.chunks[1].links = 7 /\ pure.chunks[1].kw /\ pure.chunks[1].len = 1000
    /\ pure.chunks[2] = Chunk("text", 2, 1002, 20, 6, TRUE, <<1, 0>>)
    /\ pure.out[1] = <<Chunk("text", 0, 1000, 20, 6, TRUE, <<1, 0>>)>>

\* C14 (crawl returns pagesProcessed): the value crawl_site returns is the
\* final pages_processed (2 when a budget of 2 was reached).
ReturnsPagesProcessed ==
    \A j \in Jobs : pc[j] = "done" => retval[j] = <<pages_processed[j]>>

\* s is t with some entries left out
RECURSIVE IsSubsequence(_, _)
IsSubsequence(s, t) ==
    IF s = <<>> THEN TRUE
    ELSE IF t = <<>> THEN FALSE
    ELSE IF Head(s) = Head(t) THEN IsSubsequence(Tail(s), Tail(t))
    ELSE IsSubsequence(s, Tail(t))

\* C15 (strict FIFO BFS): a change of the frontier either takes off its
\* first entry, which is the URL popped, or appends URLs behind the entries
\* it has, in the order of the page's links; so URLs are popped in the order
\* they were appended, and no URL is fetched before a URL first queued at a
\* smaller link depth.
StrictFIFO ==
    /\ [][\A j \in Jobs :
            queue'[j] # queue[j] =>
                \/ /\ queue[j] # <<>>
                   /\ queue'[j] = Tail(queue[j])
                   /\ popped'[j] = Append(popped[j], Head(queue[j]))
                \/ /\ Len(queue'[j]) > Len(queue[j])
                   /\ SubSeq(queue'[j], 1, Len(queue[j])) = queue[j]
                   /\ popped'[j] = popped[j]
                   /\ result[j].links # NoLinks
                   /\ IsSubsequence(
                         SubSeq(queue'[j], Len(queue[j]) + 1, Len(queue'[j])),
                         [i \in 1..Len(result[j].links) |->
                            geturl([urlparse(result[j].links[i]) EXCEPT !.fragment = ""])])
         ]_vars
    /\ [](\A j \in Jobs : \A i, k \in 1..Len(fetched[j]) :
            i < k => depth[j][fetched[j][i]] <= depth[j][fetched[j][k]])

\* a job has fetched its start URL, then a URL of depth 1, then one of depth 2
StrictFIFOSeen ==
    \E j \in Jobs :
        /\ Len(fetched[j]) = 3
        /\ depth[j][fetched[j][1]] = 0
        /\ depth[j][fetched[j][2]] = 1
        /\ depth[j][fetched[j][3]] = 2
        /\ fetched[j][3] = PageC
        /\ Len(popped[j]) > 3

\* C16 (fragment variants collapse): every URL queued from the links of a
\* page has an empty fragment, and a job fetches at most one of the URLs
\* (the start URL included) that are equal once the fragment is taken off.
FragmentVariantsCollapse ==
    \A j \in Jobs :
        /\ \A u \in Range(queue[j]) \cup Range(popped[j]) :
              u # start_url[j] => urlparse(u).fragment = ""
        /\ \A i, k \in 1..Len(fetched[j]) :
              i # k => geturl([urlparse(fetched[j][i]) EXCEPT !.fragment = ""])
                         # geturl([urlparse(fetched[j][k]) EXCEPT !.fragment = ""])

\* the store has a row of u stored within the cooldown window
WithinCooldown(u) ==
    \E r \in store : r.source_url = u /\ r.scraped_at > clock - SCRAPE_COOLDOWN_HOURS

\* C17 (freshness skip): when the freshness check finds the popped URL
\* indexed within the cooldown, the URL is in visited and the job goes on
\* with its loop: no fetch, no embedding call, no change of the store, of
\* pages_processed or of the frontier; a fresh start URL leaves the job with
\* an empty frontier, 0 pages and 0 fetches; no job of the single-job
\* system is about to fetch a URL that is within the cooldown.
FreshnessSkip ==
    /\ [][\A j \in Jobs :
            pc[j] = "fresh" /\ WithinCooldown(url[j]) /\ pc'[j] # "fresh" =>
                /\ pc'[j] \in {"loop", "crashed"}
                /\ url[j] \in visited'[j]
                /\ fetched'[j] = fetched[j]
                /\ emb'[j] = emb[j]
                /\ store' = store
                /\ stored'[j] = stored[j]
                /\ pages_processed'[j] = pages_processed[j]
                /\ queue'[j] = queue[j]
                /\ popped[j] = <<start_url[j]>> =>
                      queue'[j] = <<>> /\ pages_processed'[j] = 0 /\ fetched'[j] = <<>>
         ]_vars
    /\ [](\A j \in Jobs : pc[j] = "fetch" => ~WithinCooldown(url[j]))

\* the job started at Home, found it indexed within the cooldown and ended
\* with nothing fetched and nothing counted
FreshnessSkipSeen ==
    \E j \in Jobs :
        /\ pc[j] = "done"
        /\ start_url[j] = Home
        /\ popped[j] = <<Home>>
        /\ fetched[j] = <<>>
        /\ pages_processed[j] = 0
        /\ store = OldRows
        /\ clock = 0

\* C18 (cooldown across concurrent jobs): a URL whose rows were stored
\* within the cooldown window is not indexed again by any job: no two
\* committed store_chunks calls for one URL are less than a cooldown apart.
CooldownAcrossJobs ==
    \A j1, j2 \in Jobs : \A i \in 1..Len(stored[j1]) : \A k \in 1..Len(stored[j2]) :
        /\ <<j1, i>> # <<j2, k>>
        /\ stored[j1][i].url = stored[j2][k].url
        => \/ stored[j1][i].at - stored[j2][k].at >= SCRAPE_COOLDOWN_HOURS
           \/ stored[j2][k].at - stored[j1][i].at >= SCRAPE_COOLDOWN_HOURS

\* C19 (termination): every crawl job that was started eventually leaves its
\* loop with the frontier drained or the budget reached.
CrawlTerminates ==
    \A j \in Jobs : pc[j] = "enter" ~> pc[j] = "done"

\* C20 (persistence is all-or-nothing on failure): when store_chunks fails
\* before its commit, whether at the connection, after the DELETE or after
\* some INSERTs, the store stays as it was, then and when the failure has
\* been handled: the rows stored before remain, no new row is present, and
\* the page is not counted; every row of the store is an initial row or a
\* row of a committed call.
PersistenceAllOrNothing ==
    /\ [][\A j \in Jobs :
            /\ pc[j] = "store" /\ pc'[j] = "except" =>
                  /\ store' = store
                  /\ stored' = stored
                  /\ pages_processed'[j] = pages_processed[j]
            /\ pc[j] = "except" /\ txn[j] # NoTxn /\ pc'[j] # "except" =>
                  /\ pc'[j] = "loop"
                  /\ store' = store
                  /\ stored' = stored
                  /\ pages_processed'[j] = pages_processed[j]
         ]_vars
    /\ [](\A r \in store :
            \/ r \in OldRows
            \/ \E j \in Jobs : \E k \in 1..Len(stored[j]) :
                  stored[j][k].run = <<r.id[1], r.id[2]>>)

\* store_chunks has failed after its DELETE of the old row of Home and an
\* INSERT; the store still holds the old row only
PersistenceAllOrNothingSeen ==
    \E j \in Jobs :
        /\ pc[j] = "except"
        /\ url[j] = Home
        /\ txn[j] # NoTxn
        /\ txn[j][1] # {}
        /\ txn[j][1] \cap OldRows = {}
        /\ store = OldRows
====
